---- MODULE Spec2Model ----
(***************************************************************************)
(* Model of backend/server.js: the POST /api/run handler of the email      *)
(* finder, with the helpers it calls (uniq, extractEmailsFromText,         *)
(* fetchWithTimeout, scrapeEmailsFromWebsite, mxOk, placesSearchText).     *)
(*                                                                         *)
(* Strings are sequences of lexical tokens ("atoms"): "Foo@Bar.COM" is     *)
(* <<"Foo", "@", "Bar.COM">>.  toLowerCase, trim, split and replace work   *)
(* on the tokens, so that a conversion is never the identity.  null is a   *)
(* string holding the one token no text contains.                          *)
(***************************************************************************)
EXTENDS Integers, Sequences, FiniteSets, TLC

VARIABLES
    API_KEY,     \* process.env.GOOGLE_MAPS_API_KEY is set (line 18)
    net,         \* the network of this run: "reliable" or "faulty"
    body,        \* req.body: [mode, items, maxResults, verify]
    pc,          \* position of the /api/run handler
    lines,       \* const lines (line 144)
    idx,         \* position of the outer for-of loop (lines 151, 171)
    places,      \* const places (line 172)
    cur,         \* the business (or bare website) the current row is for
    pidx,        \* position of the inner for-of loop (line 175)
    rows,        \* const rows (line 148)
    scr,         \* locals of the running scrapeEmailsFromWebsite call
    emails,      \* const emails (lines 153, 176)
    checks,      \* the promises handed to Promise.all (lines 156, 179)
    inflight,    \* outbound calls awaiting an answer
    sent,        \* maxResultCount of every search request sent
    searchLog,   \* every search that returned: <<query, places>>
    upstreamFailed, \* a search call has failed
    mxLog,       \* every return of mxOk: <<row number, email, DNS answer, result>>
    dnsLog,      \* every dns.resolveMx issued: <<row number, domain>>
    nCalls,      \* outbound calls started so far
    thrown,      \* the error caught at line 196, or NoError
    responses    \* the responses sent on res

vars == <<API_KEY, net, body, pc, lines, idx, places, cur, pidx, rows, scr,
          emails, checks, inflight, sent, searchLog, upstreamFailed, mxLog,
          dnsLog, nCalls, thrown, responses>>

-----------------------------------------------------------------------------
(* Bounds of the model *)

\* longest items list of the exhaustively enumerated requests
MaxItems == 2

\* number of plain addresses on the large page beyond the scraper's cap
OverCap == 1

(* Program constants *)

\* lines.slice(0, 100)
WebsiteCap == 100

\* lines.slice(0, 20)
QueryCap == 20

\* uniq([...]).slice(0, 50)
EmailCap == 50

\* candidates.slice(0, 2)
CandidateCap == 2

-----------------------------------------------------------------------------
(* Strings *)

null == <<"#null">>

\* no error caught
NoError == "#none"

\* String.prototype.toLowerCase, token by token
LowerAtom(a) ==
    CASE a = "Foo" -> "foo"
      [] a = "INFO" -> "info"
      [] a = "Bar.COM" -> "bar.com"
      [] a = "MAILINATOR.COM" -> "mailinator.com"
      [] a = "/Contact" -> "/contact"
      [] OTHER -> a

toLowerCase(s) == [i \in 1..Len(s) |-> LowerAtom(s[i])]

RECURSIVE TrimStart(_)
TrimStart(s) ==
    IF s # <<>> /\ Head(s) = " " THEN TrimStart(Tail(s)) ELSE s

RECURSIVE TrimEnd(_)
TrimEnd(s) ==
    IF s # <<>> /\ s[Len(s)] = " " THEN TrimEnd(SubSeq(s, 1, Len(s) - 1)) ELSE s

\* String.prototype.trim
trim(s) == TrimEnd(TrimStart(s))

\* index of the first token equal to a, or 0
RECURSIVE IndexFrom(_, _, _)
IndexFrom(s, a, i) ==
    IF i > Len(s) THEN 0
    ELSE IF s[i] = a THEN i
    ELSE IndexFrom(s, a, i + 1)

IndexOf(s, a) == IndexFrom(s, a, 1)

\* s.replace(a, ""): the first occurrence only
ReplaceFirst(s, a) ==
    LET k == IndexOf(s, a)
    IN  IF k = 0 THEN s ELSE SubSeq(s, 1, k - 1) \o SubSeq(s, k + 1, Len(s))

\* s.split(a): the list of the pieces between the occurrences of a
RECURSIVE split(_, _)
split(s, a) ==
    LET k == IndexOf(s, a)
    IN  IF k = 0 THEN <<s>>
        ELSE <<SubSeq(s, 1, k - 1)>> \o split(SubSeq(s, k + 1, Len(s)), a)

\* Boolean(v) of a string or null
Boolean(v) == v # null /\ v # <<>>

RECURSIVE Flatten(_)
Flatten(ss) == IF ss = <<>> THEN <<>> ELSE Head(ss) \o Flatten(Tail(ss))

Range(s) == {s[i] : i \in 1..Len(s)}

-----------------------------------------------------------------------------
(* Values of the request body: numbers are held in tenths (2.5 is 25) *)

Num(n) == [t |-> "num", n |-> n, s |-> <<>>]
Whole(k) == Num(10 * k)
NaN == [t |-> "nan", n |-> 0, s |-> <<>>]
Undefined == [t |-> "undef", n |-> 0, s |-> <<>>]
Str(s) == [t |-> "str", n |-> 0, s |-> s]

\* the truthiness the || operator tests
Truthy(v) == \/ v.t = "num" /\ v.n # 0
             \/ v.t = "str" /\ v.s # <<>>

OrElse(v, d) == IF Truthy(v) THEN v ELSE d

\* Number(v)
Number(v) ==
    CASE v.t = "num" -> v
      [] v.t = "str" ->
            LET w == trim(v.s)
            IN  IF w = <<>> THEN Whole(0)
                ELSE IF w = <<"7">> THEN Whole(7)
                ELSE IF w = <<"150">> THEN Whole(150)
                ELSE NaN
      [] OTHER -> NaN

\* Math.max and Math.min: NaN if either argument is NaN
MathMax(a, b) ==
    IF a.t = "nan" \/ b.t = "nan" THEN NaN ELSE IF a.n >= b.n THEN a ELSE b

MathMin(a, b) ==
    IF a.t = "nan" \/ b.t = "nan" THEN NaN ELSE IF a.n <= b.n THEN a ELSE b

-----------------------------------------------------------------------------
(* uniq and extractEmailsFromText *)

\* [...new Set(arr)]: the first occurrence of every value, in order
RECURSIVE SetOrder(_, _)
SetOrder(arr, seen) ==
    IF arr = <<>> THEN <<>>
    ELSE IF Head(arr) \in seen THEN SetOrder(Tail(arr), seen)
    ELSE <<Head(arr)>> \o SetOrder(Tail(arr), seen \cup {Head(arr)})

uniq(arr) == SetOrder(SelectSeq(arr, Boolean), {})

\* tokens of [a-zA-Z0-9._%+-]+
LocalAtoms ==
    {"Foo", "foo", "INFO", "info", "sales", "jo", "contact", "nobody",
     "Bar.COM", "bar.com", "MAILINATOR.COM", "mailinator.com", "baz.org",
     "big.test"}
    \cup {"n" \o ToString(i) : i \in 1..(EmailCap + OverCap + 1)}

\* tokens of [a-zA-Z0-9.-]+\.[a-zA-Z]{2,}
DomainAtoms ==
    {"Bar.COM", "bar.com", "MAILINATOR.COM", "mailinator.com", "baz.org",
     "big.test"}

\* the pattern matches at position i of text
MatchAt(text, i) ==
    /\ i + 2 <= Len(text)
    /\ text[i] \in LocalAtoms
    /\ text[i + 1] = "@"
    /\ text[i + 2] \in DomainAtoms

\* text.match(re) with the g flag: the leftmost match at or after i, then
\* the matches after its end
RECURSIVE Matches(_, _)
Matches(text, i) ==
    LET at == {j \in i..Len(text) : MatchAt(text, j)}
    IN  IF at = {} THEN <<>>
        ELSE LET j == CHOOSE m \in at : \A o \in at : m <= o
             IN  <<SubSeq(text, j, j + 2)>> \o Matches(text, j + 3)

extractEmailsFromText(text) ==
    LET matches == Matches(text, 1)
    IN  uniq([k \in 1..Len(matches) |-> toLowerCase(matches[k])])

-----------------------------------------------------------------------------
(* The outside world: what the web, the search API and DNS hold.  The     *)
(* content is fixed; whether a call is answered at all is decided call by *)
(* call when the network is faulty.                                       *)

UrlA == <<"http://a.test">>
UrlB == <<"http://b.test">>
UrlBig == <<"http://big.test">>
UrlBad == <<"not a url">>

Origins == {"http://a.test", "http://b.test", "http://big.test"}

\* fetch() issues a request only for an absolute http(s) URL (the URL
\* parser strips surrounding white space); anything else rejects at once
Fetchable(u) == LET v == trim(u) IN v # <<>> /\ Head(v) \in Origins

\* new URL(href, base) throws on a malformed href
Malformed(href) == href # <<>> /\ Head(href) = "http://["

\* new URL(href, websiteUrl).toString()
ResolveUrl(href, base) ==
    IF Head(href) \in Origins \cup {"mailto:"} THEN href ELSE <<Head(trim(base))>> \o href

Mailto(e) == <<"mailto:">> \o e

BigText ==
    Flatten([i \in 1..(EmailCap + OverCap) |-> <<"n" \o ToString(i), "@", "big.test", " ">>])

PageA ==
    [links |-> << Mailto(<<"Foo", "@", "Bar.COM", "?", "subject">>),
                  <<"/Contact">>, <<"/pricing">>, <<>>, <<"/Contact">>,
                  <<"/about">>, <<"/support">> >>,
     text  |-> <<"hello", " ", "info", "@", "bar.com", " ", "Foo", "@", "Bar.COM">>]

PageB ==
    [links |-> << Mailto(<<" ">>), Mailto(<<"nobody">>),
                  Mailto(<<" ", "contact", "@", "baz.org", " ">>),
                  <<"http://[", "/about">>, <<"/support">>,
                  Mailto(<<"jo", "@">>) >>,
     text  |-> <<"hello">>]

PageBig ==
    [links |-> << Mailto(<<"Foo", "@", "Bar.COM">>), <<"/Contact">> >>,
     text  |-> BigText]

PageContact ==
    [links |-> <<>>,
     text  |-> <<"sales", "@", "MAILINATOR.COM", " ", "INFO", "@", "bar.com">>]

PageNone == [links |-> <<>>, text |-> <<"hello">>]

\* the document served at url
PageAt(url) ==
    LET u == trim(url)
    IN  CASE u = UrlA -> PageA
          [] u = UrlB -> PageB
          [] u = UrlBig -> PageBig
          [] u = <<"http://a.test", "/Contact">> -> PageContact
          [] u = <<"http://big.test", "/Contact">> -> PageContact
          [] OTHER -> PageNone

\* the raw text of a document: every href inside its tag, then the text
Html(page) ==
    Flatten([i \in 1..Len(page.links) |-> <<"<a href=">> \o page.links[i] \o <<">">>])
    \o page.text

\* the MX records DNS holds for a domain
HasMx(domain) == domain \in {<<"bar.com">>, <<"baz.org">>, <<"mailinator.com">>}

-----------------------------------------------------------------------------
(* scrapeEmailsFromWebsite: the parts between its awaits *)

\* a faulty variant: the address of a mailto link kept in the page's case
MailtoEmailAsWritten(href) ==
    trim(split(ReplaceFirst(href, "mailto:"), "?")[1])

\* $("a[href^='mailto:']").each(...): lines 57-62
MailtoEmail(href) ==
    toLowerCase(trim(split(ReplaceFirst(href, "mailto:"), "?")[1]))

Mailtos(page) ==
    LET sel == SelectSeq(page.links, LAMBDA h : h # <<>> /\ Head(h) = "mailto:")
        all == [i \in 1..Len(sel) |-> MailtoEmail(sel[i])]
    IN  SelectSeq(all, LAMBDA e : e # <<>>)

\* /contact|about|support/i.test(h)
HasKeyword(h) ==
    \E i \in 1..Len(h) : LowerAtom(h[i]) \in {"/contact", "/about", "/support", "contact"}

\* lines 68-70
Candidates(page) == SelectSeq(uniq(page.links), HasKeyword)

Take(s, n) == SubSeq(s, 1, IF Len(s) < n THEN Len(s) ELSE n)

\* line 82
ScrapeResult(mailtos, plain, extra) ==
    Take(uniq(mailtos \o plain \o extra), EmailCap)

-----------------------------------------------------------------------------
(* mxOk *)

DISPOSABLE ==
    { <<"mailinator.com">>, <<"10minutemail.com">>, <<"guerrillamail.com">>,
      <<"tempmail.com">>, <<"yopmail.com">>, <<"getnada.com">>,
      <<"trashmail.com">>, <<"mintemail.com">>, <<"fakeinbox.com">> }

\* email.split("@")[1]?.toLowerCase(), the empty string standing for undefined
MxDomain(email) ==
    LET parts == split(email, "@")
    IN  IF Len(parts) >= 2 THEN toLowerCase(parts[2]) ELSE <<>>

\* a faulty variant: no disposable-domain test
MxNeedsDnsAnyDomain(email) == MxDomain(email) # <<>>

\* lines 96-97 let the call go on to dns.resolveMx
MxNeedsDns(email) ==
    LET domain == MxDomain(email)
    IN  domain # <<>> /\ domain \notin DISPOSABLE

\* line 99: Array.isArray(mx) && mx.length > 0
MxFromAnswer(answer) == answer = "records"

\* the catch of lines 100-102: the error is dropped and false returned
MxOnError(msg) == NoError

\* what dns.resolveMx can come back with
DnsAnswers(domain) ==
    IF net = "faulty" THEN {"records", "empty", "error"}
    ELSE IF HasMx(domain) THEN {"records"} ELSE {"error"}

-----------------------------------------------------------------------------
(* placesSearchText *)

\* line 111
MaxResultCount(maxResults) ==
    MathMin(MathMax(Number(OrElse(maxResults, Whole(20))), Whole(1)), Whole(100))

QueryA == <<"coffee">>
QueryB == <<"pizza">>

\* data.places of the search API for a query; null is an absent field
Upstream(q) ==
    CASE q = QueryA ->
            << [displayName |-> <<"Cafe A">>, formattedAddress |-> <<"1 Main St">>,
                rating |-> <<"4.5">>, nationalPhoneNumber |-> <<"555-0100">>,
                websiteUri |-> UrlA],
               [displayName |-> <<"Cafe None">>, formattedAddress |-> null,
                rating |-> null, nationalPhoneNumber |-> null,
                websiteUri |-> null] >>
      [] q = QueryB ->
            << [displayName |-> null, formattedAddress |-> <<"2 Side St">>,
                rating |-> <<"0">>, nationalPhoneNumber |-> <<>>,
                websiteUri |-> UrlB] >>
      [] OTHER -> <<>>

OrEmpty(v) == IF Boolean(v) THEN v ELSE <<>>

\* lines 129-135
ToBusiness(p) ==
    [name    |-> OrEmpty(p.displayName),
     address |-> OrEmpty(p.formattedAddress),
     rating  |-> IF p.rating = null THEN <<>> ELSE p.rating,
     phone   |-> OrEmpty(p.nationalPhoneNumber),
     website |-> OrEmpty(p.websiteUri)]

MapPlaces(data) == [i \in 1..Len(data) |-> ToBusiness(data[i])]

-----------------------------------------------------------------------------
(* The /api/run handler *)

reqVars == <<API_KEY, net, body>>

\* a faulty variant: items taken as it comes, list or not
linesOfAnything(items) == items.v

\* Array.isArray(items) ? items : []
linesOf(items) == IF items.t = "list" THEN items.v ELSE <<>>

\* a faulty variant: the slice forgotten
BatchUncapped(ls, cap) == ls

\* lines.slice(0, cap)
Batch(ls, cap) == Take(ls, cap)

\* const website = site.trim()
SiteUrl(site) == trim(site.s)

Bare(website) ==
    [name |-> <<>>, address |-> <<>>, rating |-> <<>>, phone |-> <<>>,
     website |-> website]

Row(b, es, verified) ==
    [name |-> b.name, phone |-> b.phone, website |-> b.website,
     address |-> b.address, rating |-> b.rating,
     emails |-> es, verifiedEmails |-> verified]

JsonResponse(status, rs, text) == [status |-> status, rows |-> rs, text |-> text]

\* a faulty variant: the rows gathered so far are sent along with the error
ErrorResponsePartial(msg, rs) == JsonResponse(500, rs, msg)

\* res.status(500).send(err?.message || String(err))
ErrorResponse(msg, rs) == JsonResponse(500, <<>>, msg)

IdleScr ==
    [st |-> "idle", url |-> <<>>, mailtos |-> <<>>, plain |-> <<>>,
     candidates |-> <<>>, k |-> 0, extra |-> <<>>, result |-> <<>>,
     parsed |-> FALSE]

\* an outbound call of the row under construction
Call(kind, k, target) ==
    [kind |-> kind, phase |-> "request", row |-> Len(rows) + 1, k |-> k,
     target |-> target, timed |-> FALSE]

\* fetchWithTimeout arms its timer before the request leaves ...
fetchWithTimeout(kind, k, url) == [Call(kind, k, url) EXCEPT !.timed = TRUE]

\* ... and clears it in the finally, as soon as fetch() settles: the body is
\* read afterwards
HeadersIn(c) == [c EXCEPT !.phase = "body", !.timed = FALSE]

\* the catch of line 196
Catch(msg) ==
    /\ thrown' = msg
    /\ responses' = Append(responses, ErrorResponse(msg, rows))
    /\ pc' = "done"

\* a faulty variant: no try/catch around the scraper's body
ScrapeRethrows(msg) == msg

\* the catch of lines 83-85: the error is dropped and [] returned
ScrapeOnError(msg) == NoError

\* the catch of line 79: the error is dropped and the loop goes on
SubPageOnError(msg) == NoError

\* the call of scrapeEmailsFromWebsite(url), up to its first await
BeginScrape(url) ==
    IF Fetchable(url)
    THEN /\ scr' = [IdleScr EXCEPT !.st = "fetch1", !.url = url]
         /\ inflight' = inflight \cup {fetchWithTimeout("page", 0, url)}
         /\ nCalls' = nCalls + 1
         /\ pc' = "scrape"
         /\ UNCHANGED <<thrown, responses>>
    ELSE LET err == ScrapeOnError("Invalid URL")
         IN  /\ scr' = [IdleScr EXCEPT !.st = "ret", !.url = url]
             /\ UNCHANGED <<inflight, nCalls>>
             /\ IF err = NoError
                THEN pc' = "scrape" /\ UNCHANGED <<thrown, responses>>
                ELSE Catch(err)

\* lines 141-148
Receive ==
    /\ pc = "recv"
    /\ lines' = linesOf(body.items)
    /\ IF Len(lines') = 0
       THEN /\ responses' = Append(responses, JsonResponse(400, <<>>, "No items provided."))
            /\ pc' = "done"
       ELSE /\ pc' = "loop"
            /\ UNCHANGED responses
    /\ UNCHANGED <<reqVars, idx, places, cur, pidx, rows, scr, emails, checks,
                   inflight, sent, searchLog, upstreamFailed, mxLog, dnsLog,
                   nCalls, thrown>>

\* line 195
Respond ==
    /\ responses' = Append(responses, JsonResponse(200, rows, ""))
    /\ pc' = "done"

\* lines 151-153: the next site of the "websites" loop, or the end of it
NextSite ==
    /\ pc = "loop"
    /\ body.mode = "websites"
    /\ LET batch == Batch(lines, WebsiteCap)
       IN  IF idx >= Len(batch)
           THEN /\ Respond
                /\ UNCHANGED <<cur, scr, inflight, nCalls, thrown>>
           ELSE LET site == batch[idx + 1]
                IN  IF site.t # "str"
                    THEN /\ Catch("site.trim is not a function")
                         /\ UNCHANGED <<cur, scr, inflight, nCalls>>
                    ELSE /\ cur' = Bare(SiteUrl(site))
                         /\ BeginScrape(SiteUrl(site))
    /\ UNCHANGED <<reqVars, lines, idx, places, pidx, rows, emails, checks,
                   sent, searchLog, upstreamFailed, mxLog, dnsLog>>

\* lines 171-172 and 105-122: the next query of the "places" loop
NextQuery ==
    /\ pc = "loop"
    /\ body.mode # "websites"
    /\ LET batch == Batch(lines, QueryCap)
       IN  IF idx >= Len(batch)
           THEN /\ Respond
                /\ UNCHANGED <<inflight, nCalls, sent, thrown>>
           ELSE IF ~API_KEY
           THEN /\ Catch("Missing GOOGLE_MAPS_API_KEY in Render env vars.")
                /\ UNCHANGED <<inflight, nCalls, sent>>
           ELSE /\ sent' = sent \cup {MaxResultCount(OrElse(body.maxResults, Whole(20)))}
                /\ inflight' = inflight \cup {Call("search", 0, batch[idx + 1].s)}
                /\ nCalls' = nCalls + 1
                /\ pc' = "search"
                /\ UNCHANGED <<thrown, responses>>
    /\ UNCHANGED <<reqVars, lines, idx, places, cur, pidx, rows, scr, emails,
                   checks, searchLog, upstreamFailed, mxLog, dnsLog>>

\* lines 124-137: the search answers with a success status; a body that
\* is no JSON reads as {}
SearchReturns ==
    /\ pc = "search"
    /\ \E c \in inflight :
         /\ c.kind = "search"
         /\ \E data \in {Upstream(c.target)} \cup (IF net = "faulty" THEN {<<>>} ELSE {}) :
              /\ places' = MapPlaces(data)
              /\ searchLog' = Append(searchLog, <<c.target, places'>>)
         /\ inflight' = inflight \ {c}
    /\ pidx' = 0
    /\ pc' = "ploop"
    /\ UNCHANGED <<reqVars, lines, idx, cur, rows, scr, emails, checks, sent,
                   upstreamFailed, mxLog, dnsLog, nCalls, thrown, responses>>

\* lines 114 and 125-127: fetch() rejects, or the status is no success
SearchFails ==
    /\ pc = "search"
    /\ net = "faulty"
    /\ \E c \in inflight :
         /\ c.kind = "search"
         /\ inflight' = inflight \ {c}
    /\ upstreamFailed' = TRUE
    /\ \E msg \in {"fetch failed", "{\"error\":{\"code\":403}}", "{}"} : Catch(msg)
    /\ UNCHANGED <<reqVars, lines, idx, places, cur, pidx, rows, scr, emails,
                   checks, sent, searchLog, mxLog, dnsLog, nCalls>>

\* lines 175-176: the next business of the inner loop, or the end of it
NextPlace ==
    /\ pc = "ploop"
    /\ IF pidx >= Len(places)
       THEN /\ idx' = idx + 1
            /\ pc' = "loop"
            /\ UNCHANGED <<cur, scr, inflight, nCalls, thrown, responses>>
       ELSE LET p == places[pidx + 1]
            IN  /\ cur' = p
                /\ idx' = idx
                /\ IF p.website # <<>>
                   THEN BeginScrape(p.website)
                   ELSE /\ scr' = [IdleScr EXCEPT !.st = "ret"]
                        /\ pc' = "scrape"
                        /\ UNCHANGED <<inflight, nCalls, thrown, responses>>
    /\ UNCHANGED <<reqVars, lines, places, pidx, rows, emails, checks, sent,
                   searchLog, upstreamFailed, mxLog, dnsLog>>

-----------------------------------------------------------------------------
(* scrapeEmailsFromWebsite, await by await *)

scrapeFrame == <<reqVars, lines, idx, places, cur, pidx, rows, emails, checks,
                 sent, searchLog, upstreamFailed, mxLog, dnsLog>>

\* an error reaches the outer try of the scraper
ScrapeAbort(msg) ==
    LET err == ScrapeOnError(msg)
    IN  /\ scr' = [scr EXCEPT !.st = "ret", !.result = <<>>]
        /\ IF err = NoError
           THEN UNCHANGED <<pc, thrown, responses>>
           ELSE Catch(err)

\* an error reaches the try inside the loop over the candidates
SubAbort(msg) ==
    LET err == SubPageOnError(msg)
    IN  IF err = NoError
        THEN /\ scr' = [scr EXCEPT !.st = "sub", !.k = @ + 1]
             /\ UNCHANGED <<pc, thrown, responses>>
        ELSE ScrapeAbort(err)

\* line 49: fetch() resolves with the response head
PageResponds ==
    /\ pc = "scrape" /\ scr.st = "fetch1"
    /\ \E c \in inflight :
         /\ c.kind = "page" /\ c.phase = "request"
         /\ inflight' = (inflight \ {c}) \cup {HeadersIn(c)}
    /\ scr' = [scr EXCEPT !.st = "body1"]
    /\ UNCHANGED <<scrapeFrame, pc, nCalls, thrown, responses>>

\* line 49: fetch() rejects (connection refused, reset, DNS of the host)
PageFetchFails ==
    /\ pc = "scrape" /\ scr.st = "fetch1" /\ net = "faulty"
    /\ \E c \in inflight :
         /\ c.kind = "page" /\ c.phase = "request"
         /\ inflight' = inflight \ {c}
    /\ ScrapeAbort("fetch failed")
    /\ UNCHANGED <<scrapeFrame, nCalls>>

\* line 38: the timer fires and aborts the request
PageTimeout ==
    /\ pc = "scrape" /\ scr.st = "fetch1" /\ net = "faulty"
    /\ \E c \in inflight :
         /\ c.kind = "page" /\ c.timed
         /\ inflight' = inflight \ {c}
    /\ ScrapeAbort("The operation was aborted.")
    /\ UNCHANGED <<scrapeFrame, nCalls>>

\* lines 53-70: the body arrives and is parsed
PageBody ==
    /\ pc = "scrape" /\ scr.st = "body1"
    /\ \E c \in inflight :
         /\ c.kind = "page" /\ c.phase = "body"
         /\ inflight' = inflight \ {c}
    /\ LET page == PageAt(scr.url)
       IN  scr' = [scr EXCEPT !.st = "sub", !.parsed = TRUE,
                              !.mailtos = Mailtos(page),
                              !.plain = extractEmailsFromText(Html(page)),
                              !.candidates = Take(Candidates(page), CandidateCap)]
    /\ UNCHANGED <<scrapeFrame, pc, nCalls, thrown, responses>>

\* line 53: the body stream breaks
PageBodyFails ==
    /\ pc = "scrape" /\ scr.st = "body1" /\ net = "faulty"
    /\ \E c \in inflight :
         /\ c.kind = "page" /\ c.phase = "body"
         /\ inflight' = inflight \ {c}
    /\ ScrapeAbort("Premature close")
    /\ UNCHANGED <<scrapeFrame, nCalls>>

\* lines 73-76 and 82: the next candidate page, or the return
SubNext ==
    /\ pc = "scrape" /\ scr.st = "sub"
    /\ IF scr.k >= Len(scr.candidates)
       THEN /\ scr' = [scr EXCEPT !.st = "ret",
                          !.result = ScrapeResult(scr.mailtos, scr.plain, scr.extra)]
            /\ UNCHANGED <<inflight, nCalls, pc, thrown, responses>>
       ELSE LET href == scr.candidates[scr.k + 1]
            IN  IF Malformed(href)
                THEN /\ SubAbort("Invalid URL")
                     /\ UNCHANGED <<inflight, nCalls>>
                ELSE IF ~Fetchable(ResolveUrl(href, scr.url))
                THEN /\ SubAbort("URL scheme must be a HTTP(S) scheme")
                     /\ UNCHANGED <<inflight, nCalls>>
                ELSE /\ inflight' = inflight \cup
                            {fetchWithTimeout("subpage", scr.k + 1, ResolveUrl(href, scr.url))}
                     /\ nCalls' = nCalls + 1
                     /\ scr' = [scr EXCEPT !.st = "fetch2"]
                     /\ UNCHANGED <<pc, thrown, responses>>
    /\ UNCHANGED scrapeFrame

\* line 76: fetch() resolves with the response head
SubResponds ==
    /\ pc = "scrape" /\ scr.st = "fetch2"
    /\ \E c \in inflight :
         /\ c.kind = "subpage" /\ c.phase = "request"
         /\ inflight' = (inflight \ {c}) \cup {HeadersIn(c)}
    /\ scr' = [scr EXCEPT !.st = "body2"]
    /\ UNCHANGED <<scrapeFrame, pc, nCalls, thrown, responses>>

\* line 76: fetch() rejects
SubFetchFails ==
    /\ pc = "scrape" /\ scr.st = "fetch2" /\ net = "faulty"
    /\ \E c \in inflight :
         /\ c.kind = "subpage" /\ c.phase = "request"
         /\ inflight' = inflight \ {c}
    /\ SubAbort("fetch failed")
    /\ UNCHANGED <<scrapeFrame, nCalls>>

\* line 38: the timer of the secondary fetch fires
SubTimeout ==
    /\ pc = "scrape" /\ scr.st = "fetch2" /\ net = "faulty"
    /\ \E c \in inflight :
         /\ c.kind = "subpage" /\ c.timed
         /\ inflight' = inflight \ {c}
    /\ SubAbort("The operation was aborted.")
    /\ UNCHANGED <<scrapeFrame, nCalls>>

\* lines 77-78
SubBody ==
    /\ pc = "scrape" /\ scr.st = "body2"
    /\ \E c \in inflight :
         /\ c.kind = "subpage" /\ c.phase = "body"
         /\ inflight' = inflight \ {c}
         /\ scr' = [scr EXCEPT !.st = "sub", !.k = @ + 1,
                       !.extra = @ \o extractEmailsFromText(Html(PageAt(c.target)))]
    /\ UNCHANGED <<scrapeFrame, pc, nCalls, thrown, responses>>

\* line 77: the body stream of the secondary page breaks
SubBodyFails ==
    /\ pc = "scrape" /\ scr.st = "body2" /\ net = "faulty"
    /\ \E c \in inflight :
         /\ c.kind = "subpage" /\ c.phase = "body"
         /\ inflight' = inflight \ {c}
    /\ SubAbort("Premature close")
    /\ UNCHANGED <<scrapeFrame, nCalls>>

-----------------------------------------------------------------------------
(* Verification and the row *)

\* rows.push({...}) and the step of the enclosing for-of loop
PushRow(es, verified) ==
    /\ rows' = Append(rows, Row(cur, es, verified))
    /\ IF body.mode = "websites"
       THEN idx' = idx + 1 /\ pidx' = pidx /\ pc' = "loop"
       ELSE pidx' = pidx + 1 /\ idx' = idx /\ pc' = "ploop"

\* emails.map(async e => (await mxOk(e)) ? e : null): every mxOk runs to
\* its first await at once (lines 94-98)
NewChecks(es) ==
    [i \in 1..Len(es) |->
        [email |-> es[i],
         st    |-> IF MxNeedsDns(es[i]) THEN "pending" ELSE "done",
         ok    |-> FALSE]]

\* a faulty variant: the checks are not awaited
JoinAtOnce(cs) == TRUE

\* Promise.all settles when every promise has
JoinReady(cs) == \A i \in 1..Len(cs) : cs[i].st = "done"

\* a faulty variant: the check's verdict ignored
VerifiedUnchecked(cs) == uniq([i \in 1..Len(cs) |-> cs[i].email])

\* uniq(checks)
Verified(cs) == uniq([i \in 1..Len(cs) |-> IF cs[i].ok THEN cs[i].email ELSE null])

\* lines 153-156 and 176-179: the scrape has returned
AfterScrape ==
    /\ pc = "scrape" /\ scr.st = "ret"
    /\ emails' = scr.result
    /\ IF body.verify
       THEN LET cs == NewChecks(scr.result)
                dns == {i \in 1..Len(cs) : cs[i].st = "pending"}
            IN  /\ checks' = cs
                /\ inflight' = inflight \cup {Call("mx", i, cs[i].email) : i \in dns}
                /\ dnsLog' = dnsLog \cup {<<Len(rows) + 1, MxDomain(cs[i].email)>> : i \in dns}
                /\ mxLog' = mxLog \cup
                      {<<Len(rows) + 1, cs[i].email, "none", FALSE>> : i \in (1..Len(cs)) \ dns}
                /\ nCalls' = nCalls + Cardinality(dns)
                /\ pc' = "join"
                /\ UNCHANGED <<rows, idx, pidx>>
       ELSE /\ PushRow(scr.result, <<>>)
            /\ UNCHANGED <<checks, inflight, dnsLog, mxLog, nCalls>>
    /\ UNCHANGED <<reqVars, lines, places, cur, scr, sent, searchLog,
                   upstreamFailed, thrown, responses>>

\* lines 98-101: one dns.resolveMx settles, with records or with an error
MxAnswers ==
    /\ \E c \in inflight :
         /\ c.kind = "mx"
         /\ inflight' = inflight \ {c}
         /\ \E answer \in DnsAnswers(MxDomain(c.target)) :
              LET err == IF answer = "error" THEN MxOnError("queryMx ENOTFOUND")
                         ELSE NoError
              IN  IF err = NoError
                  THEN /\ mxLog' = mxLog \cup
                              {<<c.row, c.target, answer, MxFromAnswer(answer)>>}
                       /\ checks' =
                              IF pc = "join" /\ c.row = Len(rows) + 1
                              THEN [checks EXCEPT ![c.k] =
                                      [@ EXCEPT !.st = "done", !.ok = MxFromAnswer(answer)]]
                              ELSE checks
                       /\ UNCHANGED <<pc, thrown, responses>>
                  ELSE /\ Catch(err)
                       /\ UNCHANGED <<mxLog, checks>>
    /\ UNCHANGED <<reqVars, lines, idx, places, cur, pidx, rows, scr, emails,
                   sent, searchLog, upstreamFailed, dnsLog, nCalls>>

\* lines 156-167 and 179-190: Promise.all has settled
Join ==
    /\ pc = "join"
    /\ JoinReady(checks)
    /\ PushRow(emails, Verified(checks))
    /\ UNCHANGED <<reqVars, lines, places, cur, scr, emails, checks, inflight,
                   sent, searchLog, upstreamFailed, mxLog, dnsLog, nCalls,
                   thrown, responses>>

-----------------------------------------------------------------------------
(* Requests *)

List(v) == [t |-> "list", v |-> v]

Lists(S, n) == UNION {[1..k -> S] : k \in 1..n}

PaddedUrlB == <<" ", "http://b.test", " ">>

WebItems == {Str(UrlA), Str(PaddedUrlB), Str(UrlBad), Whole(7)}

QueryItems == {Str(QueryA), Str(QueryB)}

MaxResultsValues ==
    {Undefined, Whole(0), Whole(0 - 5), Whole(150), Num(25), Num(5), Whole(50),
     Str(<<"abc">>), Str(<<"7">>)}

\* items missing, items a string, items an empty list
InvalidItems ==
    {[t |-> "undef", v |-> <<>>], [t |-> "str", v |-> <<Str(UrlA)>>], List(<<>>)}

Start ==
    /\ pc = "recv"
    /\ lines = <<>> /\ idx = 0 /\ places = <<>> /\ cur = Bare(<<>>) /\ pidx = 0
    /\ rows = <<>> /\ scr = IdleScr /\ emails = <<>> /\ checks = <<>>
    /\ inflight = {} /\ sent = {} /\ searchLog = <<>> /\ upstreamFailed = FALSE
    /\ mxLog = {} /\ dnsLog = {} /\ nCalls = 0 /\ thrown = NoError
    /\ responses = <<>>

InitInvalid ==
    /\ API_KEY \in BOOLEAN /\ net \in {"reliable", "faulty"}
    /\ body \in [mode : {"websites", "places", "absent"}, items : InvalidItems,
                 maxResults : MaxResultsValues, verify : BOOLEAN]

InitWebsites ==
    /\ API_KEY = FALSE /\ net \in {"reliable", "faulty"}
    /\ body \in [mode : {"websites"},
                 items : {List(l) : l \in Lists(WebItems, MaxItems)},
                 maxResults : {Undefined}, verify : BOOLEAN]

InitPlaces ==
    /\ API_KEY \in BOOLEAN /\ net \in {"reliable", "faulty"}
    /\ body \in [mode : {"places", "absent"},
                 items : {List(l) : l \in Lists(QueryItems, MaxItems)},
                 maxResults : MaxResultsValues, verify : BOOLEAN]
    /\ Len(body.items.v) > 1 => body.maxResults = Undefined

\* lists around the caps of the two loops, on a network without faults
InitLong ==
    /\ API_KEY = TRUE /\ net = "reliable"
    /\ \E over \in {0, 1}, v \in BOOLEAN :
         \/ body = [mode |-> "websites",
                    items |-> List([i \in 1..(WebsiteCap + over) |->
                                      IF i % 2 = 1 THEN Str(UrlA) ELSE Str(PaddedUrlB)]),
                    maxResults |-> Undefined, verify |-> v]
         \/ body = [mode |-> "places",
                    items |-> List([i \in 1..(QueryCap + over) |->
                                      IF i % 2 = 1 THEN Str(QueryA) ELSE Str(QueryB)]),
                    maxResults |-> Undefined, verify |-> v]

\* one site with more addresses than the scraper returns
InitBig ==
    /\ API_KEY = FALSE /\ net \in {"reliable", "faulty"}
    /\ body = [mode |-> "websites", items |-> List(<<Str(UrlBig)>>),
               maxResults |-> Undefined, verify |-> FALSE]

Init ==
    /\ Start
    /\ InitInvalid \/ InitWebsites \/ InitPlaces \/ InitLong \/ InitBig

Next ==
    \/ Receive
    \/ NextSite
    \/ NextQuery
    \/ SearchReturns
    \/ SearchFails
    \/ NextPlace
    \/ PageResponds
    \/ PageFetchFails
    \/ PageTimeout
    \/ PageBody
    \/ PageBodyFails
    \/ SubNext
    \/ SubResponds
    \/ SubFetchFails
    \/ SubTimeout
    \/ SubBody
    \/ SubBodyFails
    \/ AfterScrape
    \/ MxAnswers
    \/ Join

Spec == Init /\ [][Next]_vars

-----------------------------------------------------------------------------
(* Properties *)

Min(a, b) == IF a <= b THEN a ELSE b

ItemsInvalid == body.items.t # "list" \/ body.items.v = <<>>

Answered(status) ==
    pc = "done" /\ Len(responses) = 1 /\ responses[1].status = status

BusinessOf(row) ==
    [name |-> row.name, address |-> row.address, rating |-> row.rating,
     phone |-> row.phone, website |-> row.website]

Found == Flatten([k \in 1..Len(searchLog) |-> searchLog[k][2]])

\* C1: a request whose items is missing, no list or an empty list is
\* answered 400, and no outbound call is made and no row sent for it,
\* whatever mode, maxResults and verify are.
C1_InvalidItemsRejected ==
    ItemsInvalid =>
        /\ nCalls = 0 /\ inflight = {} /\ sent = {} /\ dnsLog = {} /\ rows = <<>>
        /\ pc = "done" =>
              responses = <<JsonResponse(400, <<>>, "No items provided.")>>
        /\ pc # "done" => responses = <<>>

C1_Witness ==
    /\ pc = "done" /\ body.items.t = "str" /\ body.verify
    /\ body.mode = "websites" /\ Truthy(body.maxResults)

\* C2: a 200 response holds one row per leaf item, in processing order:
\* min(n, 100) rows with the trimmed input URLs in "websites" mode; the
\* businesses found for the first min(n, 20) queries, query by query, in
\* the order of each answer, otherwise.
C2_OneRowPerLeafInOrder ==
    Answered(200) =>
        LET out == responses[1].rows
            n   == Len(body.items.v)
        IN  IF body.mode = "websites"
            THEN /\ Len(out) = Min(n, WebsiteCap)
                 /\ \A i \in 1..Len(out) : out[i].website = trim(body.items.v[i].s)
            ELSE /\ Len(searchLog) = Min(n, QueryCap)
                 /\ \A k \in 1..Len(searchLog) : searchLog[k][1] = body.items.v[k].s
                 /\ [i \in 1..Len(out) |-> BusinessOf(out[i])] = Found

C2_Witness ==
    /\ Answered(200) /\ body.mode = "websites"
    /\ Len(body.items.v) > WebsiteCap /\ Len(responses[1].rows) = WebsiteCap

\* C3: an uncaught failure ends the request with exactly one response,
\* status 500 carrying the failure's message, and none of the rows
\* computed before it.
C3_FailureAnswers500 ==
    /\ Len(responses) <= 1
    /\ thrown # NoError =>
          /\ pc = "done"
          /\ responses = <<JsonResponse(500, <<>>, thrown)>>

C3_Witness ==
    /\ thrown # NoError /\ upstreamFailed /\ Len(rows) >= 2 /\ idx >= 1

\* the causes of failure that are not per-item transient ones: an item
\* that is no string, a missing credential, a failing search
NoFatalCause ==
    IF body.mode = "websites"
    THEN \A i \in 1..Min(Len(body.items.v), WebsiteCap) : body.items.v[i].t = "str"
    ELSE API_KEY /\ ~upstreamFailed

\* C4: per-item transient failures (fetch errors and timeouts, malformed
\* URLs, failing secondary pages, DNS failures) never reach the caller:
\* the request is answered 200 with the row of every item.
C4_TransientFailuresAbsorbed ==
    (~ItemsInvalid /\ NoFatalCause) =>
        /\ thrown = NoError
        /\ pc = "done" =>
              /\ Answered(200)
              /\ responses[1].rows = rows
              /\ IF body.mode = "websites"
                 THEN Len(rows) = Min(Len(body.items.v), WebsiteCap)
                 ELSE /\ Len(searchLog) = Min(Len(body.items.v), QueryCap)
                      /\ Len(rows) = Len(Found)

C4_Witness ==
    /\ Answered(200) /\ net = "faulty" /\ Len(rows) = 2
    /\ rows[1].website = UrlA /\ rows[1].emails = <<>>
    /\ rows[2].website = UrlB /\ Len(rows[2].emails) = 3
    /\ body.verify /\ rows[2].verifiedEmails = <<>>

\* C5: every outbound call in flight has a timer armed that will abort it.
C5_EveryCallHasTimeout == \A c \in inflight : c.timed

\* C6: verifiedEmails is empty without verify; with verify it is exactly
\* the set of the row's emails for which mxOk returned true, each once,
\* in whatever order the checks completed.
C6_VerifiedAreTheMxTrue ==
    \A r \in 1..Len(rows) :
        LET v == rows[r].verifiedEmails
            returned == {m \in mxLog : m[1] = r}
        IN  IF ~body.verify THEN v = <<>>
            ELSE /\ Range(v) = {m[2] : m \in {x \in returned : x[4]}}
                 /\ Cardinality(Range(v)) = Len(v)
                 /\ {m[2] : m \in returned} = Range(rows[r].emails)
                 /\ Cardinality(returned) = Len(rows[r].emails)

C6_Witness ==
    \E r \in 1..Len(rows) :
        /\ Len(rows[r].verifiedEmails) = 1
        /\ rows[r].verifiedEmails[1] = rows[r].emails[2]
        /\ Cardinality({m \in mxLog : m[1] = r /\ m[3] # "none"}) >= 2

\* C7: the maxResultCount sent to the search API is a number in [1, 100].
C7_MaxResultCountInRange ==
    \A v \in sent : v.t = "num" /\ Whole(1).n <= v.n /\ v.n <= Whole(100).n

\* C8: items are processed one after another: every call in flight belongs
\* to the row under construction, and calls are in flight together only
\* if they are the MX checks of that one item.
C8_OneItemAtATime ==
    /\ \A c \in inflight : c.row = Len(rows) + 1
    /\ \A c, d \in inflight : c # d => c.kind = "mx" /\ d.kind = "mx"
    /\ \A c \in inflight : c.kind = "mx" <=> pc = "join"

C8_Witness ==
    /\ Len(rows) >= 1
    /\ Cardinality(inflight) >= 2
    /\ \E c \in inflight : checks[c.k].email = c.target

\* the domain of an address, as the claim words it
AddrDomain(e) ==
    LET k == IndexOf(e, "@")
    IN  IF k = 0 THEN <<>> ELSE toLowerCase(SubSeq(e, k + 1, Len(e)))

\* C9: mxOk never raises; it returns true only for an address with a
\* domain after "@" that is not disposable and whose MX query came back
\* with a record; a disposable domain gives false with no DNS query, an
\* address without "@" gives false, and every DNS failure gives false.
C9_MxValidator ==
    /\ \A m \in mxLog :
          LET e == m[2]
          IN  /\ m[4] => /\ AddrDomain(e) # <<>>
                         /\ AddrDomain(e) \notin DISPOSABLE
                         /\ m[3] = "records"
              /\ AddrDomain(e) \in DISPOSABLE => ~m[4] /\ m[3] = "none"
              /\ IndexOf(e, "@") = 0 => ~m[4]
              /\ m[3] \in {"error", "empty"} => ~m[4]
    /\ \A q \in dnsLog : q[2] \notin DISPOSABLE /\ q[2] # <<>>
    /\ thrown # "queryMx ENOTFOUND"

C9_Witness ==
    /\ \E m \in mxLog : AddrDomain(m[2]) \in DISPOSABLE
    /\ \E m \in mxLog : IndexOf(m[2], "@") = 0
    /\ \E m \in mxLog : m[4]
    /\ \E m \in mxLog : m[3] = "error"

\* position of the first occurrence of e in the list all
FirstAt(all, e) == CHOOSE i \in 1..Len(all) : all[i] = e /\ \A j \in 1..(i - 1) : all[j] # e

\* C10: the scraper returns the union of the mailto emails, the plain
\* emails and the emails of the secondary pages it fetched, in first-seen
\* order, no address twice whatever its case, at most 50 of them; a
\* mailto link to Foo@Bar.COM gives foo@bar.com exactly once.
C10_ScraperUnion ==
    (scr.st = "ret" /\ scr.parsed) =>
        LET all == scr.mailtos \o scr.plain \o scr.extra
            res == scr.result
        IN  /\ Len(res) <= EmailCap
            /\ Range(res) \subseteq Range(all)
            /\ \A e \in Range(all) :
                  \/ e \in Range(res)
                  \/ /\ Len(res) = EmailCap
                     /\ \A r \in Range(res) : FirstAt(all, r) < FirstAt(all, e)
            /\ \A i, j \in 1..Len(res) :
                  i < j => /\ FirstAt(all, res[i]) < FirstAt(all, res[j])
                           /\ toLowerCase(res[i]) # toLowerCase(res[j])
            /\ (\E i \in 1..Min(Len(PageAt(scr.url).links), EmailCap) :
                   PageAt(scr.url).links[i] = Mailto(<<"Foo", "@", "Bar.COM">>))
               => Cardinality({i \in 1..Len(res) : res[i] = <<"foo", "@", "bar.com">>}) = 1

C10_Witness ==
    /\ scr.st = "ret" /\ scr.parsed
    /\ Len(scr.result) = EmailCap
    /\ scr.extra # <<>>
    /\ Len(scr.mailtos \o scr.plain \o scr.extra) > EmailCap + 2

====
